---- MODULE Spec2Model ----
(***************************************************************************)
(* Model of soup_tui: the terminal session state (the printed-text and     *)
(* fragile-text caches, fragile mode, manual refresh mode, the             *)
(* screen-up-to-date flag) and the operations that read and write it.      *)
(*                                                                         *)
(* Text is a sequence of tokens.  A token is one character of caller text  *)
(* or one escape code; ANSI.CLEAR_SCREEN is the two codes ESC[2J ESC[1;1H, *)
(* so a clear-screen marker can arrive split over two writes.  len() of    *)
(* the source is Len() here, with _MAX_PRINTED_TEXT_SIZE scaled down.      *)
(***************************************************************************)
EXTENDS Integers, Sequences, FiniteSets, TLC

VARIABLES
    printed_text,          \* _printed_text        (soup_tui.py:29)
    fragile_text,          \* _fragile_text        (soup_tui.py:30)
    use_fast_clear,        \* _use_fast_clear      (soup_tui.py:33)
    fragile_mode,          \* _fragile_mode        (soup_tui.py:34)
    manual_refresh_mode,   \* _manual_refresh_mode (soup_tui.py:35)
    screen_up_to_date,     \* _screen_up_to_date   (soup_tui.py:36)
    MAX_PRINTED_TEXT_SIZE, \* _MAX_PRINTED_TEXT_SIZE (soup_tui.py:27), scaled
    screen,                \* what the terminal shows: all it received since its last
                           \* clear (NotFollowed where a specification leaves it out)
    out,                   \* what the last step sent to the terminal, in order
    last,                  \* the last operation called, its arguments and its outcome
    pc,                    \* "idle" between calls; where _special_input waits for a line
    frame,                 \* the arguments and locals of the _special_input call in progress
    budget,                \* the calls the program still makes (Unlimited: any number)
    written,               \* the run of print_raw calls in progress: what the buffers
                           \* held when it began and the texts written since (NoRun
                           \* where a specification leaves it out)
    keyboard,              \* the console's pending key units and the read_key or
                           \* dump_cache call in progress (keyboard.py)
    twin                   \* a second session that receives the same calls but never
                           \* enters manual refresh mode (NoTwin where a
                           \* specification leaves it out)

vars == <<printed_text, fragile_text, use_fast_clear, fragile_mode,
          manual_refresh_mode, screen_up_to_date, MAX_PRINTED_TEXT_SIZE,
          screen, out, last, pc, frame, budget, written, keyboard,
          twin>>

\* ---------------------------------------------------------------- bounds

\* _MAX_PRINTED_TEXT_SIZE of the session specification (360000 in the source).
SessionMaxSize == 2

\* _MAX_PRINTED_TEXT_SIZE of the specification with validated input.
InputMaxSize == 18

\* The longest terminal content a specification that follows the terminal reaches.
MaxScreen == 6

\* The most lines one call of text_input or number_input reads.
MaxReads == 4

\* The calls a behaviour of the specification with validated input makes.
MaxCalls == 4

\* _MAX_PRINTED_TEXT_SIZE of the specification that follows the runs of writes.
WritesMaxSize == 2

\* The most characters the print_raw calls of one run write.
MaxWritten == 4

\* _MAX_PRINTED_TEXT_SIZE of the specification that follows the terminal.
ScreenMaxSize == 3

\* The calls a behaviour of the specification that follows the terminal makes.
ScreenCalls == 6

\* _MAX_PRINTED_TEXT_SIZE of the specification with a second, immediate session.
DeferMaxSize == 3

\* The key units the user types in a behaviour of the key decoder's specification.
MaxKeys == 4

\* ---------------------------------------------------------------- text

\* ANSI.CLEAR_SCREEN = '\033[2J\033[1;1H'
ED == "ESC[2J"
CUP == "ESC[1;1H"
CLEAR_SCREEN == <<ED, CUP>>

\* The exceptions an operation can end with ("" is a normal return).
NoError == ""
ValueError == "ValueError"
MemoryError == "MemoryError"

\* The least i with CLEAR_SCREEN at s[i], s[i+1]; 0 when there is none (str.find).
Find(s) ==
    LET hits == {i \in 1..(Len(s) - 1) : s[i] = ED /\ s[i + 1] = CUP}
    IN  IF hits = {} THEN 0 ELSE CHOOSE i \in hits : \A j \in hits : i <= j

\* s.split(ANSI.CLEAR_SCREEN)[-1]: the matches are taken left to right, and the
\* last piece is what follows the last of them.
RECURSIVE SplitLast(_)
SplitLast(s) ==
    IF Find(s) = 0 THEN s ELSE SplitLast(SubSeq(s, Find(s) + 2, Len(s)))

HasMarker(s) == Find(s) # 0

\* ------------------------------------------------------------ the session

\* The module's globals as one value, with the terminal and the pending exception.
State ==
    [printed_text |-> printed_text, fragile_text |-> fragile_text,
     use_fast_clear |-> use_fast_clear, fragile_mode |-> fragile_mode,
     manual_refresh_mode |-> manual_refresh_mode,
     screen_up_to_date |-> screen_up_to_date,
     screen |-> screen, out |-> <<>>, err |-> NoError]

\* The terminal content of a specification that does not follow it.
NotFollowed == <<"(not followed)">>

\* What the terminal shows once it has received text: a complete clear-screen
\* code erases what came before it.
Shown(scr, text) == IF scr = NotFollowed THEN scr ELSE SplitLast(scr \o text)

\* Sequencing of statements: s is the state the statements before have left, t
\* the state the next statement makes of it; a raised exception skips the statement.
Then(s, t) == IF s.err # NoError THEN s ELSE t

\* The builtin print(text, end=''): the terminal receives the text.
DevicePrint(s, text) ==
    [s EXCEPT !.screen = Shown(s.screen, text),
              !.out = Append(s.out, [k |-> "print", t |-> text])]

\* os.system('cls') / os.system('clear')
DeviceSystemClear(s) ==
    [s EXCEPT !.screen = IF s.screen = NotFollowed THEN s.screen ELSE <<>>,
              !.out = Append(s.out, [k |-> "system", t |-> <<>>])]

\* The builtin input(prompt), up to the blocking read: the prompt is shown.
DeviceInput(s, prompt) ==
    [s EXCEPT !.screen = Shown(s.screen, prompt),
              !.out = Append(s.out, [k |-> "input", t |-> prompt])]

\* The builtin input(prompt), once the user has typed a line: the terminal has
\* echoed the line and its newline.
DeviceEcho(s, response) ==
    [s EXCEPT !.screen = Shown(s.screen, response \o <<"\n">>)]

\* A faulty _update_printed_text that keeps the text before a clear-screen
\* marker in the committed buffer.
UpdatePrintedText_NoSplit(s, new_text) ==
    IF s.fragile_mode
    THEN LET f == s.fragile_text \o new_text
         IN  IF Len(f) > MAX_PRINTED_TEXT_SIZE
             THEN [s EXCEPT !.fragile_text = <<>>, !.err = MemoryError]
             ELSE [s EXCEPT !.fragile_text = f]
    ELSE LET p == s.printed_text \o new_text
         IN  IF Len(p) > MAX_PRINTED_TEXT_SIZE
             THEN [s EXCEPT !.printed_text = <<>>, !.err = MemoryError]
             ELSE [s EXCEPT !.printed_text = p]

\* A faulty _update_printed_text that lets a buffer grow one character past the
\* maximum before it raises.
UpdatePrintedText_OneMore(s, new_text) ==
    IF s.fragile_mode
    THEN LET f == s.fragile_text \o new_text
         IN  IF Len(f) > MAX_PRINTED_TEXT_SIZE + 1
             THEN [s EXCEPT !.fragile_text = <<>>, !.err = MemoryError]
             ELSE [s EXCEPT !.fragile_text = f]
    ELSE LET p == SplitLast(s.printed_text \o new_text)
         IN  IF Len(p) > MAX_PRINTED_TEXT_SIZE + 1
             THEN [s EXCEPT !.printed_text = <<>>, !.err = MemoryError]
             ELSE [s EXCEPT !.printed_text = p]

\* A faulty _update_printed_text that raises on overflow without first emptying
\* the buffer, which keeps what it held before the call.
UpdatePrintedText_KeepsOld(s, new_text) ==
    IF s.fragile_mode
    THEN LET f == s.fragile_text \o new_text
         IN  IF Len(f) > MAX_PRINTED_TEXT_SIZE
             THEN [s EXCEPT !.err = MemoryError]
             ELSE [s EXCEPT !.fragile_text = f]
    ELSE LET p == SplitLast(s.printed_text \o new_text)
         IN  IF Len(p) > MAX_PRINTED_TEXT_SIZE
             THEN [s EXCEPT !.err = MemoryError]
             ELSE [s EXCEPT !.printed_text = p]

\* _update_printed_text(new_text)
UpdatePrintedText(s, new_text) ==
    IF s.fragile_mode
    THEN LET f == s.fragile_text \o new_text
         IN  IF Len(f) > MAX_PRINTED_TEXT_SIZE
             THEN [s EXCEPT !.fragile_text = <<>>, !.err = MemoryError]
             ELSE [s EXCEPT !.fragile_text = f]
    ELSE LET p == SplitLast(s.printed_text \o new_text)
         IN  IF Len(p) > MAX_PRINTED_TEXT_SIZE
             THEN [s EXCEPT !.printed_text = <<>>, !.err = MemoryError]
             ELSE [s EXCEPT !.printed_text = p]

\* A faulty print_raw that sends the text to the terminal in manual refresh mode
\* too.
print_raw_Eager(s, text) ==
    LET s1 == IF s.manual_refresh_mode /\ Len(text) > 0
              THEN [s EXCEPT !.screen_up_to_date = FALSE]
              ELSE s
    IN  UpdatePrintedText(DevicePrint(s1, text), text)

\* print_raw(text)
print_raw(s, text) ==
    LET s1 == IF s.manual_refresh_mode
              THEN IF Len(text) > 0
                   THEN [s EXCEPT !.screen_up_to_date = FALSE]
                   ELSE s
              ELSE DevicePrint(s, text)
    IN  UpdatePrintedText(s1, text)

\* get_displayed_text(include_fragile)
get_displayed_text(s, include_fragile) ==
    IF include_fragile THEN s.printed_text \o s.fragile_text ELSE s.printed_text

\* A faulty clear_screen that leaves the fragile buffer and fragile mode alone.
clear_screen_KeepsFragile(s) ==
    LET s1 == IF s.manual_refresh_mode
              THEN [s EXCEPT !.screen_up_to_date = FALSE]
              ELSE [DeviceSystemClear(s) EXCEPT !.screen_up_to_date = TRUE]
    IN  [s1 EXCEPT !.printed_text = <<>>]

\* A faulty clear_screen that, in manual refresh mode, marks the screen out of
\* date but leaves the buffers as they are.
clear_screen_DeferredKeeps(s) ==
    IF s.manual_refresh_mode
    THEN [s EXCEPT !.screen_up_to_date = FALSE]
    ELSE LET s1 == IF s.use_fast_clear
                   THEN Then(print_raw(s, CLEAR_SCREEN),
                             [print_raw(s, CLEAR_SCREEN)
                                 EXCEPT !.screen_up_to_date = TRUE])
                   ELSE [DeviceSystemClear(s) EXCEPT !.screen_up_to_date = TRUE]
         IN  Then(s1, [s1 EXCEPT !.printed_text = <<>>,
                                 !.fragile_text = <<>>,
                                 !.fragile_mode = FALSE])

\* clear_screen()
clear_screen(s) ==
    LET s1 == IF s.manual_refresh_mode
              THEN [s EXCEPT !.screen_up_to_date = FALSE]
              ELSE IF s.use_fast_clear
                   THEN Then(print_raw(s, CLEAR_SCREEN),
                             [print_raw(s, CLEAR_SCREEN)
                                 EXCEPT !.screen_up_to_date = TRUE])
                   ELSE [DeviceSystemClear(s) EXCEPT !.screen_up_to_date = TRUE]
    IN  Then(s1, [s1 EXCEPT !.printed_text = <<>>,
                            !.fragile_text = <<>>,
                            !.fragile_mode = FALSE])

\* A faulty reprint that prints the text without clearing the terminal first.
reprint_NoClear(s, isNone, given) ==
    LET text == IF isNone THEN s.printed_text ELSE given
        s1 == [s EXCEPT !.manual_refresh_mode = FALSE, !.screen_up_to_date = TRUE,
                        !.printed_text = <<>>, !.fragile_text = <<>>,
                        !.fragile_mode = FALSE]
        s3 == print_raw(s1, text)
    IN  Then(s3, [s3 EXCEPT !.manual_refresh_mode = s.manual_refresh_mode])

\* A faulty reprint that prints the old text whatever text it is given.
reprint_IgnoresGiven(s, isNone, given) ==
    LET s1 == [s EXCEPT !.manual_refresh_mode = FALSE]
        s2 == clear_screen(s1)
        s3 == Then(s2, print_raw(s2, s.printed_text))
    IN  Then(s3, [s3 EXCEPT !.manual_refresh_mode = s.manual_refresh_mode])

\* reprint(text); isNone stands for text=None.
reprint(s, isNone, given) ==
    LET text == IF isNone THEN s.printed_text ELSE given
        old_manual_refresh == s.manual_refresh_mode
        s1 == [s EXCEPT !.manual_refresh_mode = FALSE]
        s2 == clear_screen(s1)
        s3 == Then(s2, print_raw(s2, text))
    IN  Then(s3, [s3 EXCEPT !.manual_refresh_mode = old_manual_refresh])

\* refresh()
refresh(s) == reprint(s, TRUE, <<>>)

\* A faulty begin_fragile_text without the check of manual refresh mode.
begin_fragile_text_Unchecked(s) == [s EXCEPT !.fragile_mode = TRUE]

\* begin_fragile_text()
begin_fragile_text(s) ==
    IF s.manual_refresh_mode
    THEN [s EXCEPT !.err = ValueError]
    ELSE [s EXCEPT !.fragile_mode = TRUE]

\* A faulty solidify that puts the fragile text in front of the committed text.
solidify_InFront(s) ==
    LET s1 == [s EXCEPT !.fragile_mode = FALSE, !.printed_text = <<>>]
        s2 == UpdatePrintedText(s1, s.fragile_text \o s.printed_text)
    IN  Then(s2, [s2 EXCEPT !.fragile_text = <<>>])

\* A faulty solidify that moves the fragile text onto the committed text as it
\* is, without the cut at the clear-screen marker.
solidify_Uncut(s) ==
    LET p == s.printed_text \o s.fragile_text
    IN  IF Len(p) > MAX_PRINTED_TEXT_SIZE
        THEN [s EXCEPT !.fragile_mode = FALSE, !.printed_text = <<>>,
                       !.err = MemoryError]
        ELSE [s EXCEPT !.fragile_mode = FALSE, !.printed_text = p,
                       !.fragile_text = <<>>]

\* solidify()
solidify(s) ==
    LET s1 == [s EXCEPT !.fragile_mode = FALSE]
        s2 == UpdatePrintedText(s1, s.fragile_text)
    IN  Then(s2, [s2 EXCEPT !.fragile_text = <<>>])

\* A faulty manual_refresh_mode that assigns the flag before it checks for
\* fragile mode.
set_manual_refresh_mode_AssignFirst(s, enable) ==
    LET s1 == [s EXCEPT !.manual_refresh_mode = enable]
    IN  IF enable /\ s.fragile_mode
        THEN [s1 EXCEPT !.err = ValueError]
        ELSE IF ~enable /\ ~s1.screen_up_to_date THEN refresh(s1) ELSE s1

\* A faulty manual_refresh_mode that does not refresh when it is disabled with
\* the screen out of date.
set_manual_refresh_mode_NoRefresh(s, enable) ==
    IF enable /\ s.fragile_mode
    THEN [s EXCEPT !.err = ValueError]
    ELSE [s EXCEPT !.manual_refresh_mode = enable]

\* manual_refresh_mode(enable)
set_manual_refresh_mode(s, enable) ==
    IF enable /\ s.fragile_mode
    THEN [s EXCEPT !.err = ValueError]
    ELSE LET s1 == [s EXCEPT !.manual_refresh_mode = enable]
         IN  IF ~enable /\ ~s1.screen_up_to_date THEN refresh(s1) ELSE s1

\* A faulty input_raw that reads without refreshing a screen that is out of date.
input_raw_begin_NoRefresh(s, prompt) == DeviceInput(s, prompt)

\* input_raw(prompt) up to the blocking read of line 578.
input_raw_begin(s, prompt) ==
    LET s1 == IF ~s.screen_up_to_date THEN refresh(s) ELSE s
    IN  Then(s1, DeviceInput(s1, prompt))

\* input_raw(prompt) from the return of the read; response is the line typed.
input_raw_end(s, prompt, response) ==
    UpdatePrintedText(DeviceEcho(s, response), prompt \o response \o <<"\n">>)

\* input_raw(prompt) as a whole.
input_raw(s, prompt, response) ==
    Then(input_raw_begin(s, prompt),
         input_raw_end(input_raw_begin(s, prompt), prompt, response))

\* ------------------------------------------------- print, input, validators

RESET == "ESC[0m"
CYAN == "ESC[38;5;6m"
RED == "ESC[38;5;1m"

\* print(text, end, format, remove_old_formatting)
print(s, text, end, format, remove_old_formatting) ==
    print_raw(s, (IF remove_old_formatting THEN <<RESET>> ELSE <<>>)
                 \o format \o text \o end)

\* The prompt input(prompt, prompt_format, input_format, remove_old_formatting)
\* hands to input_raw.
InputPrompt(prompt, prompt_format, input_format, remove_old_formatting) ==
    (IF remove_old_formatting THEN <<RESET>> ELSE <<>>)
    \o prompt_format \o prompt \o input_format

\* input() with its default arguments, as _special_input calls it.
DefaultPrompt == InputPrompt(<<" > ">>, <<>>, <<CYAN>>, TRUE)

\* wait_for_enter(): input('Press ENTER to continue.')
EnterPrompt == InputPrompt(<<"Press ENTER to continue.">>, <<>>, <<CYAN>>, TRUE)

\* An optional argument: None, or a value.
None == [none |-> TRUE, v |-> 0]
Some(v) == [none |-> FALSE, v |-> v]

\* What a validator or _special_input returns: None, a str, or a number.  A
\* number is in tenths; cls tells a finite float from nan and inf.
NoValue == [kind |-> "None", s |-> <<>>, n |-> 0, cls |-> ""]
StrValue(s) == [kind |-> "str", s |-> s, n |-> 0, cls |-> ""]
FloatValue(n, cls) == [kind |-> "float", s |-> <<>>, n |-> n, cls |-> cls]
IntValue(n) == [kind |-> "int", s |-> <<>>, n |-> n, cls |-> "finite"]

\* A validator's result; err is the exception that escaped it, if any.
Verdict(valid, reasons, value, err) ==
    [valid |-> valid, reasons |-> reasons, value |-> value, err |-> err]

\* text_input.validator(user_input); a reason is one token.
TextValidator(cfg, user_input) ==
    LET r1 == IF ~cfg.min_length.none /\ Len(user_input) < cfg.min_length.v
              THEN <<"Must be min_length characters or more!">> ELSE <<>>
        r2 == IF ~cfg.max_length.none /\ Len(user_input) > cfg.max_length.v
              THEN <<"Must be max_length characters or less!">> ELSE <<>>
        r3 == IF /\ ~cfg.whitelist.none
                 /\ \E i \in 1..Len(user_input) :
                        \A j \in 1..Len(cfg.whitelist.v) :
                            user_input[i] # cfg.whitelist.v[j]
              THEN <<"Must only contain these characters: whitelist">> ELSE <<>>
        r4 == IF /\ ~cfg.blacklist.none
                 /\ \E i \in 1..Len(user_input) :
                        \E j \in 1..Len(cfg.blacklist.v) :
                            user_input[i] = cfg.blacklist.v[j]
              THEN <<"Cannot contain these characters: blacklist">> ELSE <<>>
        reasons == r1 \o r2 \o r3 \o r4
    IN  Verdict(reasons = <<>>, reasons, StrValue(user_input), NoError)

\* float(user_input) on the lines the model types: ok is FALSE where float()
\* raises ValueError.
ParseFloat(user_input) ==
    CASE user_input = <<"1">> -> [ok |-> TRUE, n |-> 10, cls |-> "finite"]
      [] user_input = <<"2">> -> [ok |-> TRUE, n |-> 20, cls |-> "finite"]
      [] user_input = <<"1", ".", "5">> -> [ok |-> TRUE, n |-> 15, cls |-> "finite"]
      [] user_input = <<"n", "a", "n">> -> [ok |-> TRUE, n |-> 0, cls |-> "nan"]
      [] user_input = <<"i", "n", "f">> -> [ok |-> TRUE, n |-> 0, cls |-> "inf"]
      [] OTHER -> [ok |-> FALSE, n |-> 0, cls |-> ""]

\* a < b and a == b for a parsed number a and a finite bound b (in tenths): every
\* comparison with nan is False, inf is above every bound.
NumLess(x, b) == x.cls = "finite" /\ x.n < b
NumGreater(x, b) == x.cls = "inf" \/ (x.cls = "finite" /\ x.n > b)
NumEqual(x, b) == x.cls = "finite" /\ x.n = b

OverflowError == "OverflowError"

\* number_input.validator(user_input)
NumberValidator(cfg, user_input) ==
    LET f == ParseFloat(user_input)
        x == FloatValue(f.n, f.cls)
        whole == f.n % 10 = 0
        r1 == IF cfg.must_be_int /\ ~whole
              THEN <<"Must be a whole number!">> ELSE <<>>
        y == IF cfg.must_be_int /\ whole THEN IntValue(f.n) ELSE x
        r2 == IF ~cfg.min_value.none /\ NumLess(y, cfg.min_value.v)
              THEN <<"Must be min_value or more!">> ELSE <<>>
        r3 == IF ~cfg.max_value.none /\ NumGreater(y, cfg.max_value.v)
              THEN <<"Must be max_value or less!">> ELSE <<>>
        r4 == IF /\ ~cfg.whitelist.none
                 /\ \A j \in 1..Len(cfg.whitelist.v) : ~NumEqual(y, cfg.whitelist.v[j])
              THEN <<"Must be one of these numbers: whitelist">> ELSE <<>>
        r5 == IF /\ ~cfg.blacklist.none
                 /\ \E j \in 1..Len(cfg.blacklist.v) : NumEqual(y, cfg.blacklist.v[j])
              THEN <<"Cannot be any of these numbers: blacklist">> ELSE <<>>
        reasons == r1 \o r2 \o r3 \o r4 \o r5
    IN  IF ~f.ok
        THEN Verdict(FALSE, <<"Invalid number format!">>, IntValue(0), NoError)
        ELSE IF cfg.must_be_int /\ f.cls = "nan"
        THEN Verdict(FALSE, <<>>, x, ValueError)       \* round(nan)
        ELSE IF cfg.must_be_int /\ f.cls = "inf"
        THEN Verdict(FALSE, <<>>, x, OverflowError)    \* round(inf)
        ELSE Verdict(reasons = <<>>, reasons, y, NoError)

Validator(cfg, user_input) ==
    IF cfg.fn = "text_input"
    THEN TextValidator(cfg, user_input)
    ELSE NumberValidator(cfg, user_input)

\* ---------------------------------------------------------- _special_input

\* Where a step of _special_input leaves the call: the session, the place it
\* waits at ("idle" once it has returned or raised) and what it returned.
Outcome(s, at, ret) == [s |-> s, pc |-> at, ret |-> ret]

\* Lines 906-909: the header and one line per reason, while none raises.
RECURSIVE PrintReasons(_, _)
PrintReasons(s, reasons) ==
    IF reasons = <<>> \/ s.err # NoError
    THEN s
    ELSE PrintReasons(print(s, <<"   " \o Head(reasons)>>, <<"\n">>, <<RED>>, TRUE),
                      Tail(reasons))

\* A faulty pass that does not call begin_fragile_text().
Attempt_NoBegin(s, cfg) ==
    LET s2 == IF cfg.prompt.none
              THEN s
              ELSE print(s, cfg.prompt.v, <<"\n">>, <<>>, TRUE)
        s3 == Then(s2, input_raw_begin(s2, DefaultPrompt))
    IN  Outcome(s3, IF s3.err = NoError THEN "read" ELSE "idle", NoValue)

\* Lines 887-892, one pass of the loop up to the blocking read inside input().
Attempt(s, cfg) ==
    LET s1 == begin_fragile_text(s)
        s2 == Then(s1, IF cfg.prompt.none
                       THEN s1
                       ELSE print(s1, cfg.prompt.v, <<"\n">>, <<>>, TRUE))
        s3 == Then(s2, input_raw_begin(s2, DefaultPrompt))
    IN  Outcome(s3, IF s3.err = NoError THEN "read" ELSE "idle", NoValue)

\* A faulty pass that returns None for a rejected response, with retries
\* disabled, without calling solidify().
AfterRead_NoSolidify(s, cfg, user_input) ==
    LET s1 == input_raw_end(s, DefaultPrompt, user_input)
        v == Validator(cfg, user_input)
        s2 == IF v.valid
              THEN s1
              ELSE PrintReasons(print(s1, <<"Invalid input:">>, <<"\n">>, <<RED>>, TRUE),
                                v.reasons)
        s3 == Then(s2, print_raw(s2, cfg.end))
        s4 == Then(s3, solidify(s3))
        s5 == Then(s3, input_raw_begin(s3, EnterPrompt))
    IN  IF s1.err # NoError
        THEN Outcome(s1, "idle", NoValue)
        ELSE IF user_input = <<>> /\ ~cfg.fallback_if_blank.none
        THEN Outcome(solidify(s1), "idle", cfg.fallback_if_blank.v)
        ELSE IF v.err # NoError
        THEN Outcome([s1 EXCEPT !.err = v.err], "idle", NoValue)
        ELSE IF v.valid
        THEN Outcome(s4, "idle", v.value)
        ELSE IF ~cfg.keep_asking_until_valid
        THEN Outcome(s3, "idle", NoValue)
        ELSE Outcome(s5, IF s5.err = NoError THEN "enter" ELSE "idle", NoValue)

\* A faulty pass that validates an empty response even when a fallback is
\* configured, and returns the fallback after its error text and ending.
AfterRead_NoBypass(s, cfg, user_input) ==
    LET s1 == input_raw_end(s, DefaultPrompt, user_input)
        v == Validator(cfg, user_input)
        s2 == IF v.valid
              THEN s1
              ELSE PrintReasons(print(s1, <<"Invalid input:">>, <<"\n">>, <<RED>>, TRUE),
                                v.reasons)
        s3 == Then(s2, print_raw(s2, cfg.end))
        s4 == Then(s3, solidify(s3))
        s5 == Then(s3, input_raw_begin(s3, EnterPrompt))
    IN  IF s1.err # NoError
        THEN Outcome(s1, "idle", NoValue)
        ELSE IF v.err # NoError
        THEN Outcome([s1 EXCEPT !.err = v.err], "idle", NoValue)
        ELSE IF user_input = <<>> /\ ~cfg.fallback_if_blank.none
        THEN Outcome(s4, "idle", cfg.fallback_if_blank.v)
        ELSE IF v.valid \/ ~cfg.keep_asking_until_valid
        THEN Outcome(s4, "idle", IF v.valid THEN v.value ELSE NoValue)
        ELSE Outcome(s5, IF s5.err = NoError THEN "enter" ELSE "idle", NoValue)

\* Lines 892-926 from the return of the read: the fallback, the validator, the
\* error text, the ending, and either the return or the wait for ENTER.
AfterRead(s, cfg, user_input) ==
    LET s1 == input_raw_end(s, DefaultPrompt, user_input)
        v == Validator(cfg, user_input)
        s2 == IF v.valid
              THEN s1
              ELSE PrintReasons(print(s1, <<"Invalid input:">>, <<"\n">>, <<RED>>, TRUE),
                                v.reasons)
        s3 == Then(s2, print_raw(s2, cfg.end))
        s4 == Then(s3, solidify(s3))
        s5 == Then(s3, input_raw_begin(s3, EnterPrompt))
    IN  IF s1.err # NoError
        THEN Outcome(s1, "idle", NoValue)
        ELSE IF user_input = <<>> /\ ~cfg.fallback_if_blank.none
        THEN Outcome(solidify(s1), "idle", cfg.fallback_if_blank.v)
        ELSE IF v.err # NoError
        THEN Outcome([s1 EXCEPT !.err = v.err], "idle", NoValue)
        ELSE IF v.valid \/ ~cfg.keep_asking_until_valid
        THEN Outcome(s4, "idle", IF v.valid THEN v.value ELSE NoValue)
        ELSE Outcome(s5, IF s5.err = NoError THEN "enter" ELSE "idle", NoValue)

\* A faulty end of a rejected pass that reprints before the acknowledgement
\* read has been recorded, so that its prompt and echo outlive the reprint.
AfterEnterReprint_TooEarly(s, user_input) ==
    LET s1 == reprint(s, TRUE, <<>>)
    IN  Then(s1, input_raw_end(s1, EnterPrompt, user_input))

\* Lines 919-920 from the return of wait_for_enter's read: the session once
\* reprint() has returned, where the next pass begins.
AfterEnterReprint(s, user_input) ==
    LET s1 == input_raw_end(s, EnterPrompt, user_input)
    IN  Then(s1, reprint(s1, TRUE, <<>>))

\* Lines 919-920 from the return of wait_for_enter's read, then the next pass.
AfterEnter(s, cfg, user_input) ==
    LET s2 == AfterEnterReprint(s, user_input)
    IN  IF s2.err # NoError
        THEN Outcome(s2, "idle", NoValue)
        ELSE Attempt(s2, cfg)

\* ------------------------------------------------------- the key decoder

\* The units msvcrt.getwch() delivers: an ordinary character and the two reserved
\* prefixes '\x00' and '\xe0' that announce a second unit.
KeyUnits == {"a", "NUL", "E0"}

NoKey == "-"

IsPrefix_OnlyNul(u) == u = "NUL"

\* first_key in ('\x00', '\xe0')
IsPrefix(u) == u \in {"NUL", "E0"}

\* The console before any key is typed and any call is made.  queue is what
\* msvcrt holds; pc is where the call in progress stands ("check" before
\* msvcrt.kbhit(), "first" and "second" before each msvcrt.getwch()); kind and key
\* are what read_key returned, cache the list dump_cache builds and returns.  The
\* rest is history: all the units typed so far, how many of them were consumed
\* before the call began, whether none was pending then, the units the call
\* consumed, and the units left pending when it returned.
NoKeys ==
    [queue |-> <<>>, pc |-> "idle", op |-> "none", blocking |-> FALSE,
     first_key |-> NoKey, cache |-> <<>>, kind |-> "pending", key |-> <<>>,
     all |-> <<>>, start |-> 0, empty_at_call |-> FALSE, consumed |-> <<>>,
     left |-> <<>>]

\* A call of read_key or dump_cache begins.
KeyCall(k, op, blocking) ==
    [k EXCEPT !.op = op, !.blocking = blocking, !.first_key = NoKey,
              !.cache = <<>>, !.kind = "pending", !.key = <<>>,
              !.start = Len(k.all) - Len(k.queue),
              !.empty_at_call = (k.queue = <<>>), !.consumed = <<>>,
              !.left = <<>>]

\* msvcrt.getwch() with a unit pending: the oldest unit leaves the queue.
getwch(k) ==
    [k EXCEPT !.queue = Tail(@), !.consumed = Append(@, Head(k.queue))]

\* read_key returns a key code: to its caller, or to dump_cache's loop, which
\* appends it to the cache and calls read_key(False) again.
KeyReturn(k, code) ==
    IF k.op = "read_key"
    THEN [k EXCEPT !.pc = "idle", !.kind = "key", !.key = code, !.left = k.queue]
    ELSE [k EXCEPT !.pc = "check", !.cache = Append(@, code)]

\* read_key(blocking): not blocking and nothing pending, it returns None at once;
\* otherwise it goes on to read the first unit.
read_key(k, blocking) ==
    LET c == KeyCall(k, "read_key", blocking)
    IN  IF ~blocking /\ c.queue = <<>>
        THEN [c EXCEPT !.kind = "None"]
        ELSE [c EXCEPT !.pc = "first"]

\* dump_cache(): an empty cache, then the loop's first read_key(False).
dump_cache(k) == [KeyCall(k, "dump_cache", FALSE) EXCEPT !.pc = "check"]

\* The msvcrt.kbhit() test of a read_key(False) inside dump_cache: nothing pending
\* ends the loop and dump_cache returns the cache.
kbhit(k) ==
    IF k.queue = <<>>
    THEN [k EXCEPT !.pc = "idle", !.kind = "list", !.left = k.queue]
    ELSE [k EXCEPT !.pc = "first"]

\* first_key = msvcrt.getwch(): an ordinary unit is the key code, a prefix sends
\* read_key on to the second unit.
first_key(k) ==
    LET u == Head(k.queue)
    IN  IF ~IsPrefix(u)
        THEN KeyReturn(getwch(k), <<u>>)
        ELSE [getwch(k) EXCEPT !.pc = "second", !.first_key = u]

\* second_key = msvcrt.getwch(); return first_key + second_key
second_key(k) == KeyReturn(getwch(k), <<k.first_key, Head(k.queue)>>)

\* ------------------------------------------------------------ the actions

NoText == <<>>

Call(op, text, resp, flag, err, ret, reads) ==
    [op |-> op, text |-> text, resp |-> resp, flag |-> flag, err |-> err,
     ret |-> ret, reads |-> reads]

\* The arguments of a _special_input call, through text_input or number_input.
TextInput(prompt, end, min_length, max_length, character_whitelist, character_blacklist, fallback_if_blank, keep_asking_until_valid) ==
    [fn |-> "text_input", prompt |-> prompt, end |-> end,
     min_length |-> min_length, max_length |-> max_length,
     whitelist |-> character_whitelist, blacklist |-> character_blacklist,
     fallback_if_blank |-> fallback_if_blank,
     keep_asking_until_valid |-> keep_asking_until_valid,
     must_be_int |-> FALSE, min_value |-> None, max_value |-> None]

NumberInput(prompt, end, must_be_int, min_value, max_value, whitelist, blacklist, fallback_if_blank, keep_asking_until_valid) ==
    [fn |-> "number_input", prompt |-> prompt, end |-> end,
     min_length |-> None, max_length |-> None,
     whitelist |-> whitelist, blacklist |-> blacklist,
     fallback_if_blank |-> fallback_if_blank,
     keep_asking_until_valid |-> keep_asking_until_valid,
     must_be_int |-> must_be_int, min_value |-> min_value, max_value |-> max_value]

\* No call of _special_input is in progress.
NoFrame == [cfg |-> TextInput(None, <<>>, None, None, None, None, None, FALSE),
            reads |-> 0, before0 |-> <<>>, held0 |-> <<>>,
            before |-> <<>>, held |-> <<>>]

\* The buffers as a pass of _special_input finds them at line 887.
PassStart(s) == [before |-> s.printed_text, held |-> s.fragile_text]

\* The globals and the terminal after a step that ended in state s.  The terminal
\* content a specification follows is bounded.
Commit(s) ==
    /\ Len(s.screen) <= MaxScreen
    /\ printed_text' = s.printed_text
    /\ fragile_text' = s.fragile_text
    /\ use_fast_clear' = s.use_fast_clear
    /\ fragile_mode' = s.fragile_mode
    /\ manual_refresh_mode' = s.manual_refresh_mode
    /\ screen_up_to_date' = s.screen_up_to_date
    /\ screen' = s.screen
    /\ out' = s.out
    /\ UNCHANGED <<MAX_PRINTED_TEXT_SIZE, keyboard>>

\* The program makes one more call, if its budget allows one.
Unlimited == 0 - 1
Spend ==
    /\ budget # 0
    /\ budget' = IF budget = Unlimited THEN budget ELSE budget - 1

\* The session at import, before a terminal that shows scr.
Fresh(scr) ==
    [printed_text |-> <<>>, fragile_text |-> <<>>, use_fast_clear |-> TRUE,
     fragile_mode |-> FALSE, manual_refresh_mode |-> FALSE,
     screen_up_to_date |-> TRUE, screen |-> scr, out |-> <<>>, err |-> NoError]

NoTwin == [on |-> FALSE, s |-> Fresh(NotFollowed), overflowed |-> FALSE]

\* The second session after the call op that ended in state s in the first one:
\* it makes the same print_raw, clear_screen and use_fast_clear calls and ignores
\* manual_refresh_mode.  overflowed tells that a call of either session has
\* raised the overflow error; the two sessions are followed up to there.
FollowTwin(s, op, text, flag) ==
    IF ~twin.on THEN twin
    ELSE LET t0 == [twin.s EXCEPT !.out = <<>>, !.err = NoError]
             t == CASE op = "print_raw" -> print_raw(t0, text)
                    [] op = "clear_screen" -> clear_screen(t0)
                    [] op = "use_fast_clear" -> [t0 EXCEPT !.use_fast_clear = flag]
                    [] OTHER -> t0
         IN  [on |-> TRUE, s |-> t,
              overflowed |-> \/ twin.overflowed
                             \/ s.err = MemoryError
                             \/ t.err = MemoryError]

\* The run of writes a specification follows.  A run is a maximal sequence of
\* consecutive print_raw calls: "committed" when it is made with fragile mode off
\* (base is the committed buffer when it began), "fragile" when it follows a
\* begin_fragile_text() that returned (base and held are the committed and the
\* fragile buffer at that call; fresh tells that fragile mode was off then), and
\* "solidified" once solidify() has ended a fragile run.  cat is the concatenation
\* of the texts written, overflowed tells that one of the writes raised.  A
\* specification that follows the terminal keeps a "device" run, of which
\* overflowed tells that a call has raised the overflow error since the last
\* clear_screen(), reprint() or refresh() that returned.
Run(mode, base, held, cat, overflowed, fresh) ==
    [mode |-> mode, base |-> base, held |-> held, cat |-> cat,
     overflowed |-> overflowed, fresh |-> fresh]

NoRun == Run("off", <<>>, <<>>, <<>>, FALSE, FALSE)

\* The run after the call op(text) that ended in state s.
Follow(s, op, text) ==
    IF written.mode = "off" THEN written
    ELSE IF written.mode = "device"
    THEN [written EXCEPT !.overflowed =
              IF s.err = MemoryError THEN TRUE
              ELSE IF op \in {"clear_screen", "reprint", "refresh"} /\ s.err = NoError
                   THEN FALSE
                   ELSE @]
    ELSE CASE op = "print_raw" /\ written.mode \in {"committed", "fragile"} ->
                [written EXCEPT !.cat = @ \o text,
                                !.overflowed = @ \/ s.err # NoError]
           [] op = "print_raw" /\ written.mode = "solidified" ->
                Run("committed", printed_text, <<>>, text, s.err # NoError, TRUE)
           [] op = "print_raw" /\ written.mode = "none" -> written
           [] op = "begin_fragile_text" /\ s.err = NoError ->
                Run("fragile", printed_text, fragile_text, <<>>, FALSE, ~fragile_mode)
           [] op = "solidify" /\ written.mode = "fragile" ->
                [written EXCEPT !.mode = "solidified"]
           [] OTHER ->
                IF s.fragile_mode
                THEN Run("none", <<>>, <<>>, <<>>, FALSE, FALSE)
                ELSE Run("committed", s.printed_text, <<>>, <<>>, FALSE, TRUE)

\* The writes of a followed run are bounded.
RunBounded(op, text) ==
    (op = "print_raw" /\ written.mode \in {"committed", "fragile"})
        => Len(written.cat) + Len(text) <= MaxWritten

\* A call that runs from entry to return, or to its exception, in one step.
Whole(s, op, text, resp, flag, ret) ==
    /\ pc = "idle"
    /\ Spend
    /\ RunBounded(op, text)
    /\ Commit(s)
    /\ written' = Follow(s, op, text)
    /\ ~twin.overflowed
    /\ twin' = FollowTwin(s, op, text, flag)
    /\ Len(twin'.s.screen) <= MaxScreen
    /\ last' = Call(op, text, resp, flag, s.err,
                    IF s.err = NoError THEN ret ELSE NoValue, 0)
    /\ UNCHANGED <<pc, frame>>

UseFastClear(enable) ==
    Whole([State EXCEPT !.use_fast_clear = enable],
          "use_fast_clear", NoText, NoText, enable, NoValue)

BeginFragileText ==
    Whole(begin_fragile_text(State), "begin_fragile_text", NoText, NoText, FALSE,
          NoValue)

Solidify ==
    Whole(solidify(State), "solidify", NoText, NoText, FALSE, NoValue)

ManualRefreshMode(enable) ==
    Whole(set_manual_refresh_mode(State, enable),
          "manual_refresh_mode", NoText, NoText, enable, NoValue)

PrintRaw(text) ==
    Whole(print_raw(State, text), "print_raw", text, NoText, FALSE, NoValue)

PrintCall(text, end, format, remove_old_formatting) ==
    Whole(print(State, text, end, format, remove_old_formatting),
          "print", text \o end, format, remove_old_formatting, NoValue)

\* input_raw(prompt) with the line the user answers it with.
InputRaw(prompt, response) ==
    Whole(input_raw(State, prompt, response), "input_raw", prompt, response, FALSE,
          StrValue(response))

GetDisplayedText(include_fragile) ==
    Whole(State, "get_displayed_text", NoText, NoText, include_fragile,
          StrValue(get_displayed_text(State, include_fragile)))

ClearScreen ==
    Whole(clear_screen(State), "clear_screen", NoText, NoText, FALSE, NoValue)

Reprint(text) ==
    Whole(reprint(State, FALSE, text), "reprint", text, NoText, FALSE, NoValue)

Refresh ==
    Whole(refresh(State), "refresh", NoText, NoText, TRUE, NoValue)

\* A step of _special_input that ended as o: the call waits for a line (the
\* frame is kept) or is over (the outcome is recorded).
Step(o, cfg, resp, reads, call, pass) ==
    /\ Commit(o.s)
    /\ pc' = o.pc
    /\ frame' = IF o.pc = "idle" THEN NoFrame
                ELSE [cfg |-> cfg, reads |-> reads,
                      before0 |-> call.before, held0 |-> call.held,
                      before |-> pass.before, held |-> pass.held]
    /\ written' = Follow(o.s, cfg.fn, NoText)
    /\ UNCHANGED twin
    /\ last' = Call(cfg.fn, IF cfg.prompt.none THEN NoText ELSE cfg.prompt.v, resp,
                    cfg.keep_asking_until_valid, o.s.err,
                    IF o.s.err = NoError THEN o.ret ELSE NoValue, reads)

\* text_input(...) / number_input(...) is called and runs up to its first read.
SpecialInput(cfg) ==
    /\ pc = "idle"
    /\ Spend
    /\ Step(Attempt(State, cfg), cfg, NoText, 0, PassStart(State), PassStart(State))

\* The user answers the question.
SpecialInputRead(response) ==
    /\ pc = "read"
    /\ UNCHANGED budget
    /\ Step(AfterRead(State, frame.cfg, response), frame.cfg, response,
            frame.reads + 1, [before |-> frame.before0, held |-> frame.held0],
            [before |-> frame.before, held |-> frame.held])

\* The user answers "Press ENTER to continue."; the bound is on the lines one call
\* reads.
SpecialInputEnter(response) ==
    /\ pc = "enter"
    /\ frame.reads + 1 < MaxReads
    /\ UNCHANGED budget
    /\ Step(AfterEnter(State, frame.cfg, response), frame.cfg, response,
            frame.reads + 1, [before |-> frame.before0, held |-> frame.held0],
            PassStart(AfterEnterReprint(State, response)))

\* The texts the session specification writes: nothing, one character, each half
\* of the clear-screen marker, a text with the marker inside it.
SessionTexts ==
    {<<>>, <<"\n">>, <<ED>>, <<CUP>>, <<"\n", ED, CUP, "\n">>}

SessionPrompts == {<<>>, <<"\n">>}
SessionResponses == {<<>>, <<"a">>}

Init ==
    /\ printed_text = <<>>
    /\ fragile_text = <<>>
    /\ use_fast_clear = TRUE
    /\ fragile_mode = FALSE
    /\ manual_refresh_mode = FALSE
    /\ screen_up_to_date = TRUE
    /\ MAX_PRINTED_TEXT_SIZE = SessionMaxSize
    /\ screen = NotFollowed
    /\ out = <<>>
    /\ last = Call("import", NoText, NoText, FALSE, NoError, NoValue, 0)
    /\ pc = "idle"
    /\ frame = NoFrame
    /\ budget = Unlimited
    /\ written = NoRun
    /\ keyboard = NoKeys
    /\ twin = NoTwin

Next ==
    \/ \E enable \in BOOLEAN : UseFastClear(enable)
    \/ BeginFragileText
    \/ Solidify
    \/ \E enable \in BOOLEAN : ManualRefreshMode(enable)
    \/ \E text \in SessionTexts : PrintRaw(text)
    \/ \E end \in {<<>>, <<"\n">>}, remove \in BOOLEAN : PrintCall(<<>>, end, <<>>, remove)
    \/ \E prompt \in SessionPrompts, response \in SessionResponses :
           InputRaw(prompt, response)
    \/ ClearScreen
    \/ \E text \in SessionTexts : Reprint(text)
    \/ Refresh

Spec == Init /\ [][Next]_vars

\* ------------------------------------------ the session with validated input

\* The texts, prompts and answers of the specification with validated input.
InputTexts == {<<>>, <<"a">>}
InputPrompts == {<<>>}
InputResponses == {<<>>, <<"a">>}
TextResponses == {<<>>, <<"a">>, <<"b">>}
NumberResponses ==
    {<<>>, <<"x">>, <<"1">>, <<"2">>, <<"1", ".", "5">>, <<"n", "a", "n">>,
     <<"i", "n", "f">>}
Responses(fn) == IF fn = "text_input" THEN TextResponses ELSE NumberResponses

\* The calls of text_input and number_input the specification makes.
InputCalls ==
    {TextInput(p, <<"\n">>, Some(1), None, None, Some(<<"b">>), fb, keep) :
        p \in {None, Some(<<"?">>)}, fb \in {None, Some(StrValue(<<"d">>))},
        keep \in BOOLEAN}
    \cup
    {NumberInput(None, <<"\n">>, int, None, Some(10), None, None, None, keep) :
        int \in BOOLEAN, keep \in BOOLEAN}

InitInput ==
    /\ printed_text = <<>>
    /\ fragile_text = <<>>
    /\ use_fast_clear = TRUE
    /\ fragile_mode = FALSE
    /\ manual_refresh_mode = FALSE
    /\ screen_up_to_date = TRUE
    /\ MAX_PRINTED_TEXT_SIZE = InputMaxSize
    /\ screen = NotFollowed
    /\ out = <<>>
    /\ last = Call("import", NoText, NoText, FALSE, NoError, NoValue, 0)
    /\ pc = "idle"
    /\ frame = NoFrame
    /\ budget = MaxCalls
    /\ written = NoRun
    /\ keyboard = NoKeys
    /\ twin = NoTwin

NextInput ==
    \/ \E enable \in BOOLEAN : UseFastClear(enable)
    \/ BeginFragileText
    \/ Solidify
    \/ \E enable \in BOOLEAN : ManualRefreshMode(enable)
    \/ \E text \in InputTexts : PrintRaw(text)
    \/ \E text \in InputTexts : PrintCall(text, <<"\n">>, <<>>, TRUE)
    \/ \E prompt \in InputPrompts, response \in InputResponses :
           InputRaw(prompt, response)
    \/ ClearScreen
    \/ \E text \in InputTexts : Reprint(text)
    \/ Refresh
    \/ \E cfg \in InputCalls : SpecialInput(cfg)
    \/ \E response \in Responses(frame.cfg.fn) : SpecialInputRead(response)
    \/ \E response \in InputResponses : SpecialInputEnter(response)

SpecInput == InitInput /\ [][NextInput]_vars

\* ------------------------------------------------ the session's runs of writes

\* The texts the specification of the runs writes: one character, each half of
\* the clear-screen marker, a text with the marker inside it.
WriteTexts == {<<"x">>, <<ED>>, <<CUP>>, <<"x", ED, CUP, "x">>}

InitWrites ==
    /\ printed_text = <<>>
    /\ fragile_text = <<>>
    /\ use_fast_clear = TRUE
    /\ fragile_mode = FALSE
    /\ manual_refresh_mode = FALSE
    /\ screen_up_to_date = TRUE
    /\ MAX_PRINTED_TEXT_SIZE = WritesMaxSize
    /\ screen = NotFollowed
    /\ out = <<>>
    /\ last = Call("import", NoText, NoText, FALSE, NoError, NoValue, 0)
    /\ pc = "idle"
    /\ frame = NoFrame
    /\ budget = Unlimited
    /\ written = Run("committed", <<>>, <<>>, <<>>, FALSE, TRUE)
    /\ keyboard = NoKeys
    /\ twin = NoTwin

NextWrites ==
    \/ BeginFragileText
    \/ Solidify
    \/ \E enable \in BOOLEAN : ManualRefreshMode(enable)
    \/ \E text \in WriteTexts : PrintRaw(text)
    \/ ClearScreen

SpecWrites == InitWrites /\ [][NextWrites]_vars

\* ------------------------------------------------------- the key decoder alone

\* The variables of the session, which the key decoder never touches.
session ==
    <<printed_text, fragile_text, use_fast_clear, fragile_mode,
      manual_refresh_mode, screen_up_to_date, MAX_PRINTED_TEXT_SIZE,
      screen, out, last, pc, frame, budget, written, twin>>

\* The user types a key unit.
KeyPress(u) ==
    /\ Len(keyboard.all) < MaxKeys
    /\ keyboard' = [keyboard EXCEPT !.queue = Append(@, u), !.all = Append(@, u)]
    /\ UNCHANGED session

ReadKey(blocking) ==
    /\ keyboard.pc = "idle"
    /\ keyboard' = read_key(keyboard, blocking)
    /\ UNCHANGED session

DumpCache ==
    /\ keyboard.pc = "idle"
    /\ keyboard' = dump_cache(keyboard)
    /\ UNCHANGED session

Kbhit ==
    /\ keyboard.pc = "check"
    /\ keyboard' = kbhit(keyboard)
    /\ UNCHANGED session

\* msvcrt.getwch() waits until a unit is pending.
FirstKey ==
    /\ keyboard.pc = "first"
    /\ keyboard.queue # <<>>
    /\ keyboard' = first_key(keyboard)
    /\ UNCHANGED session

SecondKey ==
    /\ keyboard.pc = "second"
    /\ keyboard.queue # <<>>
    /\ keyboard' = second_key(keyboard)
    /\ UNCHANGED session

InitKeys == Init

NextKeys ==
    \/ \E u \in KeyUnits : KeyPress(u)
    \/ \E blocking \in BOOLEAN : ReadKey(blocking)
    \/ DumpCache
    \/ Kbhit
    \/ FirstKey
    \/ SecondKey

\* A call in progress goes on whenever it can: only a getwch() with nothing
\* pending holds it.
SpecKeys ==
    InitKeys /\ [][NextKeys]_vars /\ WF_vars(Kbhit \/ FirstKey \/ SecondKey)

\* ------------------------------------------- the session and its terminal

\* The texts written before a followed terminal: nothing, one character, each
\* half of the clear-screen marker, a text that ends with the marker.
ScreenTexts == {<<>>, <<"a">>, <<ED>>, <<CUP>>, <<"a", ED, CUP>>}

\* The texts given to reprint: one that fits the committed buffer and one that,
\* at ScreenMaxSize, does not.
ReprintTexts == {<<"a">>, <<"a", "a", "a", "a">>}

\* The terminal is taken to show nothing at import.
InitScreen ==
    /\ printed_text = <<>>
    /\ fragile_text = <<>>
    /\ use_fast_clear = TRUE
    /\ fragile_mode = FALSE
    /\ manual_refresh_mode = FALSE
    /\ screen_up_to_date = TRUE
    /\ MAX_PRINTED_TEXT_SIZE = ScreenMaxSize
    /\ screen = <<>>
    /\ out = <<>>
    /\ last = Call("import", NoText, NoText, FALSE, NoError, NoValue, 0)
    /\ pc = "idle"
    /\ frame = NoFrame
    /\ budget = ScreenCalls
    /\ written = Run("device", <<>>, <<>>, <<>>, FALSE, FALSE)
    /\ keyboard = NoKeys
    /\ twin = NoTwin

NextScreen ==
    \/ \E enable \in BOOLEAN : UseFastClear(enable)
    \/ BeginFragileText
    \/ Solidify
    \/ \E enable \in BOOLEAN : ManualRefreshMode(enable)
    \/ \E text \in ScreenTexts : PrintRaw(text)
    \/ \E response \in {<<>>, <<"a">>} : InputRaw(<<>>, response)
    \/ ClearScreen
    \/ \E text \in ReprintTexts : Reprint(text)
    \/ Refresh
    \/ \E include_fragile \in BOOLEAN : GetDisplayedText(include_fragile)

SpecScreen == InitScreen /\ [][NextScreen]_vars

\* ------------------------------------ deferred and immediate rendering

InitDefer ==
    /\ printed_text = <<>>
    /\ fragile_text = <<>>
    /\ use_fast_clear = TRUE
    /\ fragile_mode = FALSE
    /\ manual_refresh_mode = FALSE
    /\ screen_up_to_date = TRUE
    /\ MAX_PRINTED_TEXT_SIZE = DeferMaxSize
    /\ screen = <<>>
    /\ out = <<>>
    /\ last = Call("import", NoText, NoText, FALSE, NoError, NoValue, 0)
    /\ pc = "idle"
    /\ frame = NoFrame
    /\ budget = Unlimited
    /\ written = NoRun
    /\ keyboard = NoKeys
    /\ twin = [on |-> TRUE, s |-> Fresh(<<>>), overflowed |-> FALSE]

NextDefer ==
    \/ \E enable \in BOOLEAN : UseFastClear(enable)
    \/ \E enable \in BOOLEAN : ManualRefreshMode(enable)
    \/ \E text \in ScreenTexts : PrintRaw(text)
    \/ ClearScreen

SpecDefer == InitDefer /\ [][NextDefer]_vars

\* ------------------------------------------------------------- properties

\* The content of s after its last clear-screen marker; all of s when it has none.
AfterLastMarker(s) ==
    LET hits == {i \in 1..(Len(s) - 1) : s[i] = ED /\ s[i + 1] = CUP}
    IN  IF hits = {} THEN s
        ELSE LET i == CHOOSE h \in hits : \A j \in hits : j <= h
             IN  SubSeq(s, i + 2, Len(s))

\* The buffer _update_printed_text appends to, before and after a step.
ActiveBuffer == IF fragile_mode THEN fragile_text ELSE printed_text
ActiveBufferAfter == IF fragile_mode THEN fragile_text' ELSE printed_text'

\* The text the call recorded in l handed to _update_printed_text.
Appended(l) ==
    CASE l.op = "print_raw" -> l.text
      [] l.op = "print" -> (IF l.flag THEN <<RESET>> ELSE <<>>) \o l.resp \o l.text
      [] l.op = "input_raw" -> l.text \o l.resp \o <<"\n">>
      [] OTHER -> <<>>

\* The step is a call of one of the operations that append their text.
AppendStep == last'.op \in {"print_raw", "print", "input_raw"}

\* C1: at every operation boundary (no call in progress), after any sequence of
\* the public operations, text_input and number_input among them, each returning
\* or raising, fragile mode and manual refresh mode are not both enabled.
C1_ModesExclusive ==
    pc = "idle" => ~(fragile_mode /\ manual_refresh_mode)

\* text_input or number_input was called in manual refresh mode and raised.
C1_Witness ==
    /\ pc = "idle"
    /\ last.op \in {"text_input", "number_input"}
    /\ last.err = ValueError
    /\ manual_refresh_mode
    /\ ~fragile_mode

\* C2: begin_fragile_text() in manual refresh mode, and manual_refresh_mode(True)
\* in fragile mode, raise the mode-conflict error and leave both flags, both
\* buffers, the dirty flag and the terminal exactly as they were.
C2_ModeConflictAtomic ==
    [][(\/ last'.op = "begin_fragile_text" /\ manual_refresh_mode
        \/ last'.op = "manual_refresh_mode" /\ last'.flag /\ fragile_mode)
       => /\ last'.err = ValueError
          /\ out' = <<>>
          /\ UNCHANGED <<printed_text, fragile_text, fragile_mode,
                         manual_refresh_mode, screen_up_to_date, screen>>]_vars

\* manual_refresh_mode(True) was refused while fragile text was on the screen.
C2_Witness ==
    /\ last.op = "manual_refresh_mode"
    /\ last.flag
    /\ last.err = ValueError
    /\ fragile_mode
    /\ fragile_text # <<>>
    /\ ~manual_refresh_mode

\* C3: in every reachable state, so after every operation that returns, the
\* committed buffer and the fragile buffer each hold at most
\* _MAX_PRINTED_TEXT_SIZE characters.
C3_BuffersBounded ==
    /\ Len(printed_text) <= MAX_PRINTED_TEXT_SIZE
    /\ Len(fragile_text) <= MAX_PRINTED_TEXT_SIZE

\* An operation returned with both buffers full.
C3_Witness ==
    /\ last.err = NoError
    /\ Len(printed_text) = MAX_PRINTED_TEXT_SIZE
    /\ Len(fragile_text) = MAX_PRINTED_TEXT_SIZE

\* C4 as stated: with the length an append brings a buffer to counted as the
\* buffer's length plus the appended text's, an append to exactly the maximum
\* succeeds and keeps the content, and one past it raises the overflow error
\* and leaves the buffer empty.
C4_Original ==
    [][AppendStep =>
        LET n == Len(ActiveBuffer) + Len(Appended(last'))
        IN  /\ n = MAX_PRINTED_TEXT_SIZE
                => /\ last'.err = NoError
                   /\ ActiveBufferAfter = ActiveBuffer \o Appended(last')
            /\ n > MAX_PRINTED_TEXT_SIZE
                => /\ last'.err = MemoryError
                   /\ ActiveBufferAfter = <<>>]_vars

\* C4 (amended): the length an append brings the committed buffer to is counted
\* after the text up to the last clear-screen marker is dropped (the fragile
\* buffer keeps all of it).  An append to exactly the maximum succeeds and keeps
\* that content; one past it raises the overflow error and leaves the buffer
\* empty.
C4_OverflowRule ==
    [][AppendStep =>
        LET all == ActiveBuffer \o Appended(last')
            kept == IF fragile_mode THEN all ELSE AfterLastMarker(all)
        IN  /\ Len(kept) = MAX_PRINTED_TEXT_SIZE
                => /\ last'.err = NoError
                   /\ ActiveBufferAfter = kept
            /\ Len(kept) > MAX_PRINTED_TEXT_SIZE
                => /\ last'.err = MemoryError
                   /\ ActiveBufferAfter = <<>>]_vars

\* A write filled the committed buffer to exactly the maximum and returned.
C4_Witness ==
    /\ last.op = "print_raw"
    /\ last.text # <<>>
    /\ last.err = NoError
    /\ ~fragile_mode
    /\ Len(printed_text) = MAX_PRINTED_TEXT_SIZE

\* C5 as stated: after every run of print_raw calls made with fragile mode off,
\* the committed buffer is what it held before the run followed by the texts
\* written, in call order, cut to the content after the last clear-screen marker.
C5_Original ==
    written.mode = "committed"
        => printed_text = AfterLastMarker(written.base \o written.cat)

\* C5 (amended): after every run of print_raw calls made with fragile mode off,
\* none of which raised the overflow error, the committed buffer is what it held
\* before the run followed by the texts written, in call order, cut to the
\* content after the last clear-screen marker.
C5_CommittedIsConcatenation ==
    (written.mode = "committed" /\ ~written.overflowed)
        => printed_text = AfterLastMarker(written.base \o written.cat)

\* Several writes, a clear-screen marker among them, and text after the marker.
C5_Witness ==
    /\ written.mode = "committed"
    /\ ~written.overflowed
    /\ last.op = "print_raw"
    /\ Len(written.cat) > Len(last.text)
    /\ HasMarker(written.base \o written.cat)
    /\ printed_text # <<>>

\* C6 as stated: begin_fragile_text() called with fragile mode off, then
\* print_raw calls, then solidify(), none of them raising, leave the committed
\* buffer equal to what it held before followed by the texts written, in call
\* order; the writes made in fragile mode leave the committed buffer as it was.
C6_Original ==
    /\ written.mode = "fragile" => printed_text = written.base
    /\ (/\ written.mode = "solidified"
        /\ written.fresh
        /\ ~written.overflowed
        /\ last.err = NoError)
        => printed_text = written.base \o written.cat

\* C6 (amended): begin_fragile_text(), then print_raw calls, then solidify(),
\* none of them raising, leave the committed buffer equal to what it held before,
\* followed by what the fragile buffer held at begin_fragile_text() and by the
\* texts written, in call order, cut to the content after the last clear-screen
\* marker; the writes made in fragile mode leave the committed buffer as it was.
C6_SolidifyAppends ==
    /\ written.mode = "fragile" => printed_text = written.base
    /\ (/\ written.mode = "solidified"
        /\ ~written.overflowed
        /\ last.err = NoError)
        => printed_text =
              AfterLastMarker(written.base \o written.held \o written.cat)

\* Text was committed, then fragile text was written and solidified behind it.
C6_Witness ==
    /\ written.mode = "solidified"
    /\ last.op = "solidify"
    /\ last.err = NoError
    /\ ~written.overflowed
    /\ written.base # <<>>
    /\ written.cat # <<>>
    /\ printed_text = written.base \o written.cat

\* C7: after any call of solidify(), also one that raised the overflow error,
\* the fragile buffer is empty and fragile mode is off.
C7_SolidifyClears ==
    last.op = "solidify" => fragile_text = <<>> /\ ~fragile_mode

\* C8: solidify() called right after solidify() changes nothing: neither buffer
\* and no flag.
C8_SolidifyIdempotent ==
    [][(last.op = "solidify" /\ last'.op = "solidify")
       => UNCHANGED <<printed_text, fragile_text, fragile_mode,
                      manual_refresh_mode, screen_up_to_date>>]_vars

\* C9: in manual refresh mode print_raw, print and clear_screen send nothing to
\* the terminal; a write that returns has recorded its text in the committed
\* buffer, and marks the screen out of date exactly when its text is not empty;
\* clear_screen always marks it so, and empties both buffers.
C9_ManualDefers ==
    [][manual_refresh_mode =>
        /\ last'.op \in {"print_raw", "print"}
            => /\ out' = <<>>
               /\ screen' = screen
               /\ last'.err = NoError
                    => printed_text' = AfterLastMarker(printed_text \o Appended(last'))
               /\ screen_up_to_date' =
                    (IF Appended(last') # <<>> THEN FALSE ELSE screen_up_to_date)
        /\ last'.op = "clear_screen"
            => /\ out' = <<>>
               /\ screen' = screen
               /\ ~screen_up_to_date'
               /\ printed_text' = <<>>
               /\ fragile_text' = <<>>]_vars

\* A write in manual refresh mode: nothing was sent, the text is in the buffer,
\* the screen is out of date.
C9_Witness ==
    /\ manual_refresh_mode
    /\ last.op = "print_raw"
    /\ last.text # <<>>
    /\ last.err = NoError
    /\ out = <<>>
    /\ printed_text = last.text
    /\ ~screen_up_to_date

\* C10: at every operation boundary the screen is out of date only if manual
\* refresh mode is on.
C10_DirtyOnlyManual ==
    pc = "idle" => (~screen_up_to_date => manual_refresh_mode)

\* manual_refresh_mode(False) found the screen out of date and refreshed it.
C10_Witness ==
    /\ last.op = "manual_refresh_mode"
    /\ ~last.flag
    /\ out # <<>>
    /\ screen_up_to_date
    /\ ~manual_refresh_mode

\* What the terminal receives when the screen is really cleared: the clear-screen
\* code with fast clear, the platform's clear command without.
FullClear ==
    IF use_fast_clear
    THEN [k |-> "print", t |-> CLEAR_SCREEN]
    ELSE [k |-> "system", t |-> <<>>]

\* What the terminal receives in a refresh: a full clear, then the committed buffer.
FullRefresh == <<FullClear, [k |-> "print", t |-> printed_text]>>

\* C11: manual_refresh_mode(False) called with the screen out of date makes the
\* terminal receive one full clear followed by exactly the committed buffer, and
\* returns with the screen up to date and the committed buffer unchanged; called
\* with the screen up to date it sends nothing to the terminal.
C11_DisableFlushes ==
    [][(last'.op = "manual_refresh_mode" /\ ~last'.flag) =>
        IF ~screen_up_to_date
        THEN /\ out' = FullRefresh
             /\ last'.err = NoError
             /\ screen_up_to_date'
             /\ printed_text' = printed_text
             /\ ~manual_refresh_mode'
        ELSE /\ out' = <<>>
             /\ last'.err = NoError
             /\ screen_up_to_date' = screen_up_to_date
             /\ printed_text' = printed_text]_vars

\* Manual refresh mode was disabled with deferred text: the terminal received a
\* full clear and that text.
C11_Witness ==
    /\ last.op = "manual_refresh_mode"
    /\ ~last.flag
    /\ last.err = NoError
    /\ Len(out) = 2
    /\ out[1].t \in {CLEAR_SCREEN, <<>>}
    /\ out[2] = [k |-> "print", t |-> printed_text]
    /\ printed_text # <<>>
    /\ screen_up_to_date

\* C12: input_raw called with the screen out of date sends a full refresh (a
\* full clear, then the whole committed buffer) to the terminal before it issues
\* the read, and the screen is up to date when the read is issued and when the
\* call ends; a call that returns has appended prompt + response + newline to the
\* active buffer and returns the response.
C12_InputRefreshesFirst ==
    [][last'.op = "input_raw" =>
        LET prompt == last'.text
            response == last'.resp
            all == ActiveBuffer \o prompt \o response \o <<"\n">>
            kept == IF fragile_mode THEN all ELSE AfterLastMarker(all)
        IN  /\ out' = (IF ~screen_up_to_date THEN FullRefresh ELSE <<>>)
                      \o <<[k |-> "input", t |-> prompt]>>
            /\ input_raw_begin(State, prompt).err = NoError
            /\ input_raw_begin(State, prompt).screen_up_to_date
            /\ screen_up_to_date'
            /\ last'.err = NoError
                => /\ ActiveBufferAfter = kept
                   /\ last'.ret = StrValue(response)]_vars

\* input_raw was called in manual refresh mode with deferred text and returned.
C12_Witness ==
    /\ last.op = "input_raw"
    /\ last.err = NoError
    /\ manual_refresh_mode
    /\ Len(out) = 3
    /\ out[2].t # <<>>
    /\ out[3].k = "input"
    /\ printed_text = out[2].t \o last.text \o last.resp \o <<"\n">>
    /\ screen_up_to_date

\* What a terminal shows that has received o, a full clear first.
RECURSIVE Received(_)
Received(o) ==
    IF o = <<>> THEN <<>>
    ELSE LET before == Received(SubSeq(o, 1, Len(o) - 1))
             r == o[Len(o)]
         IN  IF r.k = "system" THEN <<>> ELSE AfterLastMarker(before \o r.t)

\* C13: refresh(), from any reachable state, in manual refresh mode or not,
\* really clears the terminal and then sends it the whole committed buffer;
\* after the call the terminal shows the committed buffer and the screen is up
\* to date.
C13_RefreshReconciles ==
    [][last'.op = "refresh" =>
        /\ last'.err = NoError
        /\ out' = FullRefresh
        /\ Received(out') = printed_text'
        /\ screen_up_to_date']_vars

\* C14: refresh() discards the fragile text and keeps the permanent text: after
\* the call the fragile buffer is empty, fragile mode is off, and the committed
\* buffer is what it was before the call.
C14_RefreshDropsFragile ==
    [][last'.op = "refresh" =>
        /\ fragile_text' = <<>>
        /\ ~fragile_mode'
        /\ printed_text' = printed_text]_vars

C16_ClearScreenTotal ==
    [][last'.op = "clear_screen" =>
        /\ last'.err = NoError
        /\ printed_text' = <<>>
        /\ fragile_text' = <<>>
        /\ ~fragile_mode'
        /\ ~manual_refresh_mode => (out' = <<FullClear>> /\ screen_up_to_date')]_vars

\* The session's state but for the fast-clear setting and the terminal, with the
\* exception the call ended with.
Outcome17(s) ==
    [printed_text |-> s.printed_text, fragile_text |-> s.fragile_text,
     fragile_mode |-> s.fragile_mode, manual_refresh_mode |-> s.manual_refresh_mode,
     screen_up_to_date |-> s.screen_up_to_date, err |-> s.err]

\* The current state with fast clear set to enable.
WithFastClear(enable) == [State EXCEPT !.use_fast_clear = enable]

\* C17: the fast-clear setting has no effect on the state: from every reachable
\* state, each operation leaves the same buffers, mode flags and dirty flag and
\* ends with the same error or none, with fast clear on and with fast clear off.
C17_FastClearNoStateEffect ==
    pc = "idle" =>
        /\ Outcome17(clear_screen(WithFastClear(TRUE)))
           = Outcome17(clear_screen(WithFastClear(FALSE)))
        /\ Outcome17(refresh(WithFastClear(TRUE)))
           = Outcome17(refresh(WithFastClear(FALSE)))
        /\ \A text \in SessionTexts :
             /\ Outcome17(reprint(WithFastClear(TRUE), FALSE, text))
                = Outcome17(reprint(WithFastClear(FALSE), FALSE, text))
             /\ Outcome17(print_raw(WithFastClear(TRUE), text))
                = Outcome17(print_raw(WithFastClear(FALSE), text))
        /\ \A enable \in BOOLEAN :
             Outcome17(set_manual_refresh_mode(WithFastClear(TRUE), enable))
             = Outcome17(set_manual_refresh_mode(WithFastClear(FALSE), enable))
        /\ \A prompt \in SessionPrompts, response \in SessionResponses :
             Outcome17(input_raw(WithFastClear(TRUE), prompt, response))
             = Outcome17(input_raw(WithFastClear(FALSE), prompt, response))
        /\ Outcome17(begin_fragile_text(WithFastClear(TRUE)))
           = Outcome17(begin_fragile_text(WithFastClear(FALSE)))
        /\ Outcome17(solidify(WithFastClear(TRUE)))
           = Outcome17(solidify(WithFastClear(FALSE)))

\* What a pass of the validated input loop writes before its read: the prompt,
\* when there is one, on a line of its own.
PassPrompt(cfg) ==
    IF cfg.prompt.none THEN <<>> ELSE <<RESET>> \o cfg.prompt.v \o <<"\n">>

\* What the read of a pass records: the input prompt, the response, a newline.
PassEcho(response) == <<RESET, " > ", CYAN>> \o response \o <<"\n">>

\* The read that ends in this step is answered with a response the validator
\* accepts, in a call with retries enabled, and the call returns.
AcceptedStep ==
    /\ pc = "read"
    /\ pc' = "idle"
    /\ frame.cfg.keep_asking_until_valid
    /\ last'.err = NoError
    /\ ~(last'.resp = <<>> /\ ~frame.cfg.fallback_if_blank.none)
    /\ Validator(frame.cfg, last'.resp).valid

RetryStep == pc = "enter" /\ pc' = "read"

\* C19 as stated: when the reprint after a rejected pass has returned, the
\* displayed text (committed buffer plus fragile buffer) is what it was when
\* that pass began.
C19_Original ==
    [][RetryStep =>
        frame'.before \o frame'.held = frame.before \o frame.held]_vars

\* C19 (amended): when the reprint after a rejected pass has returned, the
\* committed buffer is what it was when that pass began and the fragile buffer
\* is empty: the displayed text is the committed buffer of before the pass,
\* without the fragile text that was there when the pass began.
C19_ReprintRestores ==
    [][RetryStep =>
        /\ frame'.before = frame.before
        /\ frame'.held = <<>>
        /\ printed_text' = frame.before
        /\ fragile_text' = PassPrompt(frame.cfg)]_vars

\* The second pass of a call waits at its read, with text committed before it.
C19_Witness ==
    /\ pc = "read"
    /\ frame.reads = 2
    /\ frame.before # <<>>
    /\ printed_text = frame.before
    /\ last.err = NoError

\* The read that ends in this step is answered with an empty response in a call
\* with a fallback value.
BlankStep ==
    /\ pc = "read"
    /\ last'.reads = frame.reads + 1
    /\ last'.resp = <<>>
    /\ ~frame.cfg.fallback_if_blank.none

\* C20: an empty response in a call with a fallback value ends the call at once:
\* unless the overflow error is raised, the call returns the fallback, no error
\* text and no ending is written (the validator is not consulted), the pass's
\* prompt and echo are moved into the committed buffer, and fragile mode is off.
C20_FallbackBypasses ==
    [][BlankStep =>
        /\ pc' = "idle"
        /\ out' = <<>>
        /\ last'.err \in {NoError, MemoryError}
        /\ last'.err = NoError
            => /\ last'.ret = frame.cfg.fallback_if_blank.v
               /\ printed_text' = AfterLastMarker(printed_text \o fragile_text
                                                  \o PassEcho(<<>>))
               /\ fragile_text' = <<>>
               /\ ~fragile_mode']_vars

\* A call returned its fallback on an empty response that its validator rejects.
C20_Witness ==
    /\ pc = "idle"
    /\ last.op = "text_input"
    /\ last.resp = <<>>
    /\ last.reads = 1
    /\ last.err = NoError
    /\ last.ret = StrValue(<<"d">>)
    /\ ~fragile_mode
    /\ Len(printed_text) >= Len(PassEcho(<<>>))

\* The error text of a pass: the header and one line per reason, each in red.
RECURSIVE ReasonLines(_)
ReasonLines(reasons) ==
    IF reasons = <<>> THEN <<>>
    ELSE <<RESET, RED, "   " \o Head(reasons), "\n">> \o ReasonLines(Tail(reasons))

ErrorText(verdict) ==
    IF verdict.valid THEN <<>>
    ELSE <<RESET, RED, "Invalid input:", "\n">> \o ReasonLines(verdict.reasons)

\* The read that ends in this step is answered in a call with retries disabled,
\* and the validator is consulted (the response is not a blank with a fallback).
SinglePassStep ==
    /\ pc = "read"
    /\ last'.reads = frame.reads + 1
    /\ ~frame.cfg.keep_asking_until_valid
    /\ ~(last'.resp = <<>> /\ ~frame.cfg.fallback_if_blank.none)

\* C21: with retries disabled the validated input loop makes exactly one pass:
\* one line is read, the terminal receives no acknowledgement prompt and no
\* clear, and the call is over.  When it returns, it returns the parsed value if
\* the validator accepts and None if it rejects, and in both cases the pass's
\* text, error lines included, has been moved into the committed buffer, fragile
\* mode is off and the fragile buffer is empty.
C21_SinglePass ==
    [][SinglePassStep =>
        LET v == Validator(frame.cfg, last'.resp)
        IN  /\ pc' = "idle"
            /\ last'.reads = 1
            /\ \A i \in 1..Len(out') : out'[i].k = "print" /\ ~HasMarker(out'[i].t)
            /\ last'.err = NoError
                => /\ last'.ret = (IF v.valid THEN v.value ELSE NoValue)
                   /\ printed_text' = printed_text \o fragile_text
                                      \o PassEcho(last'.resp) \o ErrorText(v)
                                      \o frame.cfg.end
                   /\ fragile_text' = <<>>
                   /\ ~fragile_mode']_vars

\* A call with retries disabled returned None for a rejected response, and the
\* error text is in the committed buffer.
C21_Witness ==
    /\ pc = "idle"
    /\ last.op \in {"text_input", "number_input"}
    /\ ~last.flag
    /\ last.reads = 1
    /\ last.err = NoError
    /\ last.ret = NoValue
    /\ \E i \in 1..Len(printed_text) : printed_text[i] = "Invalid input:"
    /\ fragile_text = <<>>
    /\ ~fragile_mode

\* C22: text_input and number_input called in manual refresh mode raise the
\* mode-conflict error before anything is sent to the terminal or read, and
\* leave the session as it was; and a step of the loop that raises ends the call.
C22_ModeConflictPropagates ==
    [][/\ (pc = "idle" /\ manual_refresh_mode
           /\ last'.op \in {"text_input", "number_input"})
          => /\ last'.err = ValueError
             /\ last'.reads = 0
             /\ pc' = "idle"
             /\ out' = <<>>
             /\ UNCHANGED <<printed_text, fragile_text, fragile_mode,
                            manual_refresh_mode, screen_up_to_date, use_fast_clear>>
       /\ (last'.op \in {"text_input", "number_input"} /\ last'.err # NoError)
          => pc' = "idle"]_vars

\* text_input or number_input was refused in manual refresh mode, with deferred
\* text still waiting for its refresh.
C22_Witness ==
    /\ pc = "idle"
    /\ last.op \in {"text_input", "number_input"}
    /\ last.err = ValueError
    /\ last.reads = 0
    /\ out = <<>>
    /\ manual_refresh_mode
    /\ ~screen_up_to_date
    /\ printed_text # <<>>

\* C23: no exception escapes text_input or number_input because of what the
\* response is: once a line has been read, a call ends with no error or with the
\* overflow error only.
C23_NoValidationException ==
    (last.op \in {"text_input", "number_input"} /\ last.reads >= 1)
        => last.err \in {NoError, MemoryError}

\* The units of a list of key codes, in order.
RECURSIVE Units(_)
Units(codes) == IF codes = <<>> THEN <<>> ELSE Head(codes) \o Units(Tail(codes))

\* A key code as the decoder is to form it from the units it consumed: one
\* ordinary unit, or a reserved prefix and the unit after it.
WellFormedCode(code) ==
    \/ Len(code) = 1 /\ code[1] \notin {"NUL", "E0"}
    \/ Len(code) = 2 /\ code[1] \in {"NUL", "E0"}

\* The units a call consumed are the oldest that were pending or typed since.
ConsumedInOrder ==
    /\ keyboard.start + Len(keyboard.consumed) <= Len(keyboard.all)
    /\ keyboard.consumed =
           SubSeq(keyboard.all, keyboard.start + 1,
                  keyboard.start + Len(keyboard.consumed))
    /\ keyboard.queue =
           SubSeq(keyboard.all, keyboard.start + Len(keyboard.consumed) + 1,
                  Len(keyboard.all))

\* C24: read_key consumes the pending units in order; when it has returned, it
\* returned None exactly when it was called with blocking off and no unit
\* pending, and then consumed nothing; otherwise it returned the units it
\* consumed as one key code, two units long exactly when the first is '\x00' or
\* '\xe0' and one unit long otherwise, so never a prefix alone.
C24_ReadKeyDecodes ==
    keyboard.op = "read_key" =>
        /\ ConsumedInOrder
        /\ keyboard.pc = "idle" =>
              /\ keyboard.kind \in {"None", "key"}
              /\ keyboard.kind = "None" <=>
                     (~keyboard.blocking /\ keyboard.empty_at_call)
              /\ keyboard.kind = "None" =>
                     keyboard.consumed = <<>> /\ keyboard.key = <<>>
              /\ keyboard.kind = "key" =>
                     /\ keyboard.key = keyboard.consumed
                     /\ WellFormedCode(keyboard.key)

\* read_key(False) has returned a two-unit code although another key code was
\* pending behind it.
C24_Witness ==
    /\ keyboard.op = "read_key"
    /\ keyboard.pc = "idle"
    /\ ~keyboard.blocking
    /\ keyboard.kind = "key"
    /\ keyboard.key = <<"E0", "a">>
    /\ keyboard.queue # <<>>

\* C25: dump_cache never waits for a unit, whatever is pending when it is called
\* and typed while it runs, a reserved prefix with nothing after it included; when
\* it has returned, the list it returned is the key codes decoded from the units
\* it consumed, in the order read, and no unit was left pending.
C25_DumpCacheNeverBlocks ==
    keyboard.op = "dump_cache" =>
        /\ ConsumedInOrder
        /\ ~(keyboard.pc \in {"first", "second"} /\ keyboard.queue = <<>>)
        /\ keyboard.pc = "idle" =>
              /\ keyboard.kind = "list"
              /\ Units(keyboard.cache) = keyboard.consumed
              /\ \A i \in 1..Len(keyboard.cache) : WellFormedCode(keyboard.cache[i])
              /\ keyboard.left = <<>>

\* C26: get_displayed_text() returns the text the terminal displays: when the
\* screen is up to date and no call has raised the overflow error since the last
\* clear, what the terminal shows (all it received after its last clear or
\* clear-screen marker) is the committed buffer followed by the fragile buffer,
\* which is what get_displayed_text() has returned; get_displayed_text(False)
\* has returned the committed buffer alone.
C26_DisplayedText ==
    /\ (screen_up_to_date /\ ~written.overflowed)
           => screen = printed_text \o fragile_text
    /\ (last.op = "get_displayed_text" /\ last.flag /\ screen_up_to_date
            /\ ~written.overflowed)
           => last.ret = StrValue(screen)
    /\ (last.op = "get_displayed_text" /\ ~last.flag)
           => last.ret = StrValue(printed_text)

\* C27: deferred rendering is equivalent to immediate rendering: once manual
\* refresh mode has been switched off again, and no call has raised the overflow
\* error, the committed buffer and the terminal are those of the session that
\* made the same print_raw and clear_screen calls with manual refresh mode off.
C27_DeferredEquivalent ==
    (twin.on /\ ~manual_refresh_mode /\ ~twin.overflowed)
        => /\ printed_text = twin.s.printed_text
           /\ screen = twin.s.screen

\* manual_refresh_mode(False) has just re-rendered a screen that deferred writes
\* had left out of date, text is shown, and the slow clear was in use.
C27_Witness ==
    /\ twin.on
    /\ ~twin.overflowed
    /\ last.op = "manual_refresh_mode"
    /\ ~last.flag
    /\ Len(out) = 2
    /\ out[1].k = "system"
    /\ screen # <<>>
    /\ twin.s.screen = screen

\* C28: between calls, a fragile buffer that is not empty implies that fragile
\* mode is on: no sequence of calls, those that raise the overflow error included,
\* leaves fragile text behind with fragile mode off.
C28_FragileOnlyInMode == fragile_text # <<>> => fragile_mode

\* C29: reprint() and refresh() leave manual refresh mode as it was before the
\* call, whether the call returns or raises the overflow error.
C29_ReprintKeepsManual ==
    [][last'.op \in {"reprint", "refresh"}
           => manual_refresh_mode' = manual_refresh_mode]_vars

\* C30: between calls the committed buffer never contains the clear-screen
\* marker, whatever writes, reads, solidify, clear and reprint calls were made.
C30_NoMarkerCommitted ==
    \A i \in 1..(Len(printed_text) - 1) :
        ~(printed_text[i] = ED /\ printed_text[i + 1] = CUP)

\* A text with the marker inside it has been written or reprinted, and the
\* committed buffer holds what follows the marker.
C30_Witness ==
    /\ last.op \in {"print_raw", "reprint"}
    /\ last.err = NoError
    /\ \E i \in 1..(Len(last.text) - 1) : last.text[i] = ED /\ last.text[i + 1] = CUP
    /\ ~fragile_mode
    /\ printed_text = <<"\n">>

\* C31: with retries enabled, the validated input loop retries exactly when the
\* validator rejects the response and ends as soon as a response is accepted or
\* an empty response meets a configured fallback.  A response is read after an
\* even number 2k of lines (k rejected responses, each followed by one
\* acknowledgement read and the reprint that leads to the next question); an
\* acceptable one makes the call return, after 2k+1 reads, its parsed value or
\* the fallback, never None; any other one leads to the acknowledgement read,
\* and that read to the next question.
C31_RetryUntilAccepted ==
    [][(pc # "idle" /\ frame.cfg.keep_asking_until_valid) =>
          IF pc = "read"
          THEN LET cfg == frame.cfg
                   v == Validator(cfg, last'.resp)
                   blank == last'.resp = <<>> /\ ~cfg.fallback_if_blank.none
               IN  /\ frame.reads % 2 = 0
                   /\ last'.reads = frame.reads + 1
                   /\ (blank \/ v.valid) =>
                         /\ pc' = "idle"
                         /\ last'.err = NoError
                         /\ last'.ret = (IF blank THEN cfg.fallback_if_blank.v
                                         ELSE v.value)
                         /\ last'.ret.kind # "None"
                   /\ ~(blank \/ v.valid) =>
                         /\ pc' = "enter"
                         /\ last'.err = NoError
          ELSE /\ frame.reads % 2 = 1
               /\ last'.reads = frame.reads + 1
               /\ pc' = "read"
               /\ last'.err = NoError]_vars

====
